---- MODULE Spec2Model ----
(***************************************************************************)
(* Model of the two batch extractors of the repository:                    *)
(*   src/dict_sw.py  SchwartzHearstExtractor   (mapping mode,    "sw")     *)
(*   src/dict_ac.py  NavalDocumentProcessor    (vocabulary mode, "ac")     *)
(* A Python str is modelled as a sequence of one-character strings, so     *)
(* that indexing, slicing, split, strip and the regular expressions of the *)
(* source are computed character by character as the code computes them.   *)
(***************************************************************************)
EXTENDS Integers, Sequences, FiniteSets, TLC

(***************************************************************************)
(* Characters and the str methods the source uses                          *)
(***************************************************************************)
Chars(s) == [i \in 1..Len(s) |-> SubSeq(s, i, i)]

UpperSeq == Chars("ABCDEFGHIJKLMNOPQRSTUVWXYZ")
LowerSeq == Chars("abcdefghijklmnopqrstuvwxyz")
UpperSet == {UpperSeq[i] : i \in 1..26}
LowerSet == {LowerSeq[i] : i \in 1..26}
DigitSet == {"0", "1", "2", "3", "4", "5", "6", "7", "8", "9"}
AlphaSet == UpperSet \cup LowerSet
\* \w of the re module (ASCII part)
WordCharSet == AlphaSet \cup DigitSet \cup {"_"}
\* the characters str.strip(), str.split() and \s treat as whitespace
WhiteSpace == {" ", "\t", "\n", "\r", "\f"}

ToLower == [c \in UpperSet |-> LowerSeq[CHOOSE i \in 1..26 : UpperSeq[i] = c]]
ToUpper == [c \in LowerSet |-> UpperSeq[CHOOSE i \in 1..26 : LowerSeq[i] = c]]

ch_lower(c) == IF c \in UpperSet THEN ToLower[c] ELSE c
ch_upper(c) == IF c \in LowerSet THEN ToUpper[c] ELSE c

SetMin(S) == CHOOSE m \in S : \A n \in S : m <= n
SetMax(S) == CHOOSE m \in S : \A n \in S : m >= n

str_lower(s) == [i \in 1..Len(s) |-> ch_lower(s[i])]

\* str.isupper(): at least one cased character and no lowercase one
str_isupper(s) ==
    /\ \E i \in 1..Len(s) : s[i] \in UpperSet
    /\ \A i \in 1..Len(s) : s[i] \notin LowerSet

str_isalpha(s) == Len(s) > 0 /\ \A i \in 1..Len(s) : s[i] \in AlphaSet

str_strip(s) ==
    LET keep == {i \in 1..Len(s) : s[i] \notin WhiteSpace}
    IN  IF keep = {} THEN <<>> ELSE SubSeq(s, SetMin(keep), SetMax(keep))

\* str.rstrip(chars)
str_rstrip(s, chars) ==
    LET keep == {i \in 1..Len(s) : s[i] \notin chars}
    IN  IF keep = {} THEN <<>> ELSE SubSeq(s, 1, SetMax(keep))

RECURSIVE SplitFrom(_, _)
SplitFrom(s, i) ==
    LET starts == {j \in i..Len(s) : s[j] \notin WhiteSpace}
    IN  IF starts = {} THEN <<>>
        ELSE LET a == SetMin(starts)
                 ends == {j \in a..Len(s) : s[j] \in WhiteSpace}
                 b == IF ends = {} THEN Len(s) + 1 ELSE SetMin(ends)
             IN  <<SubSeq(s, a, b - 1)>> \o SplitFrom(s, b)

\* str.split(): the words between runs of whitespace
str_split(s) == SplitFrom(s, 1)

RECURSIVE SplitOnFrom(_, _, _)
SplitOnFrom(s, sep, i) ==
    LET seps == {j \in i..Len(s) : s[j] = sep}
    IN  IF seps = {} THEN <<SubSeq(s, i, Len(s))>>
        ELSE <<SubSeq(s, i, SetMin(seps) - 1)>> \o SplitOnFrom(s, sep, SetMin(seps) + 1)

\* str.split(sep) for a one-character separator: empty pieces are kept
str_split_on(s, sep) == SplitOnFrom(s, sep, 1)

RECURSIVE str_join(_, _)
str_join(sep, words) ==
    IF Len(words) = 0 THEN <<>>
    ELSE IF Len(words) = 1 THEN words[1]
    ELSE words[1] \o sep \o str_join(sep, Tail(words))

str_startswith(s, p) == Len(p) <= Len(s) /\ SubSeq(s, 1, Len(p)) = p

str_endswith(s, p) == Len(p) <= Len(s) /\ SubSeq(s, Len(s) - Len(p) + 1, Len(s)) = p

\* str.rfind(c) for one character, 1-based; 0 stands for Python's -1
str_rfind(s, c) ==
    LET hits == {i \in 1..Len(s) : s[i] = c}
    IN  IF hits = {} THEN 0 ELSE SetMax(hits)

\* sub in s
str_contains(s, sub) ==
    \E i \in 1..(Len(s) - Len(sub) + 1) : SubSeq(s, i, i + Len(sub) - 1) = sub

\* length of the maximal run of characters of `set` that starts at position i
RunLen(s, i, set) ==
    LET stops == {j \in i..Len(s) : s[j] \notin set}
    IN  IF i > Len(s) THEN 0
        ELSE IF stops = {} THEN Len(s) - i + 1 ELSE SetMin(stops) - i

CharAt(s, i, set) == i >= 1 /\ i <= Len(s) /\ s[i] \in set

RECURSIVE WordRunsFrom(_, _)
WordRunsFrom(s, i) ==
    LET starts == {j \in i..Len(s) : s[j] \in WordCharSet}
    IN  IF starts = {} THEN <<>>
        ELSE LET a == SetMin(starts)
                 n == RunLen(s, a, WordCharSet)
             IN  <<SubSeq(s, a, a + n - 1)>> \o WordRunsFrom(s, a + n)

\* the maximal runs of \w characters of s, left to right: a match of
\* \b<letters>\b is exactly such a run made of the letters asked for
WordRuns(s) == WordRunsFrom(s, 1)

\* re.match(r'^(\d+\.|\d+\.\d+|[IVXLCDM]+\.)\s+', line)
RomanLetters == {"I", "V", "X", "L", "C", "D", "M"}
NumberedPrefix(line) ==
    LET d == RunLen(line, 1, DigitSet)
        e == RunLen(line, d + 2, DigitSet)
        r == RunLen(line, 1, RomanLetters)
    IN  \/ /\ d >= 1
           /\ CharAt(line, d + 1, {"."})
           /\ \/ CharAt(line, d + 2, WhiteSpace)
              \/ e >= 1 /\ CharAt(line, d + 2 + e, WhiteSpace)
        \/ /\ r >= 1
           /\ CharAt(line, r + 1, {"."})
           /\ CharAt(line, r + 2, WhiteSpace)

\* sum(1 for w in words if w and w[0].isupper())
CapCount(words) == Cardinality({i \in 1..Len(words) : CharAt(words[i], 1, UpperSet)})

(***************************************************************************)
(* Mapping mode (src/dict_sw.py): the pure functions                       *)
(***************************************************************************)
sw_stop_words ==
    {Chars("the"), Chars("a"), Chars("an"), Chars("and"), Chars("or"),
     Chars("of"), Chars("for"), Chars("in"), Chars("on"), Chars("at"),
     Chars("to"), Chars("by"), Chars("with")}

sw_heading_keywords ==
    {Chars("chapter"), Chars("section"), Chars("part"), Chars("article"),
     Chars("annexure"), Chars("appendix"), Chars("volume"), Chars("abstract"),
     Chars("introduction"), Chars("conclusion"), Chars("summary"),
     Chars("references"), Chars("index"), Chars("contents"), Chars("session"),
     Chars("appendices"), Chars("preface"), Chars("foreword"),
     Chars("acknowledgment"), Chars("bibliography")}

sw_is_heading(line0) ==
    LET line == str_strip(line0)
        words == str_split(line)
    IN  IF Len(line) = 0 \/ Len(words) = 0 THEN FALSE
        ELSE \/ str_isupper(line) /\ 2 <= Len(words) /\ Len(words) <= 12
             \/ str_endswith(line, <<":">>)
             \/ NumberedPrefix(line)
             \/ /\ 2 <= Len(words) /\ Len(words) <= 8
                /\ 10 * CapCount(words) >= 7 * Len(words)
             \/ \E keyword \in sw_heading_keywords :
                    str_startswith(str_lower(line), keyword)

\* remove_headings_from_text without the is_heading test: every line is kept
remove_headings_keep(txt) == str_join(<<"\n">>, str_split_on(txt, "\n"))

\* (the parameter `text` of the source is written txt in the operators: text
\* names the local of process_pdf among the variables)
remove_headings_from_text(txt) ==
    LET lines == str_split_on(txt, "\n")
        clean_lines == SelectSeq(lines, LAMBDA line : ~sw_is_heading(line))
    IN  str_join(<<"\n">>, clean_lines)

false_positives ==
    {Chars("NO"), Chars("YES"), Chars("OK"), Chars("AM"), Chars("PM"),
     Chars("AD"), Chars("BC")}

is_valid_acronym(txt) ==
    /\ Len(txt) > 0
    /\ str_isupper(txt)
    /\ ~(Len(txt) < 2 \/ Len(txt) > 10)
    /\ str_isalpha(txt)
    /\ ~(Cardinality({txt[i] : i \in 1..Len(txt)}) = 1 /\ Len(txt) <= 2)
    /\ txt \notin false_positives

\* extract_min_max: <<min_idx, max_idx>>, or NoBounds for (None, None).  The
\* candidate cut to its last max_words words is a local of the function: the
\* caller receives only the two indexes.
NoBounds == <<-1, -1>>
extract_min_max(short_form, long_form) ==
    LET sf_len == Len(short_form)
        lf_len == Len(long_form)
        lf_words == str_split(long_form)
        max_words == IF sf_len + 5 < sf_len * 2 THEN sf_len + 5 ELSE sf_len * 2
        \* lf_words[-max_words:], which is the whole list when max_words = 0
        last_words == IF max_words = 0 THEN lf_words
                      ELSE SubSeq(lf_words, Len(lf_words) - max_words + 1, Len(lf_words))
        cut == IF Len(lf_words) > max_words
               THEN str_join(<<" ">>, last_words)
               ELSE long_form
    IN  IF lf_len < sf_len THEN NoBounds ELSE <<0, Len(cut)>>

\* The two nested while loops of find_best_long_form.  si is the short-form
\* index still to match, li the long-form cursor (both 1-based, 0 = exhausted);
\* the value is the cursor after the last match, or -1 when a character of the
\* short form is not found.
RECURSIVE BackwardMatch(_, _, _, _)
BackwardMatch(short_form, long_form, si, li) ==
    IF si = 0 THEN li
    ELSE LET hits == {j \in 1..li : ch_lower(long_form[j]) = ch_lower(short_form[si])}
         IN  IF hits = {} THEN -1
             ELSE BackwardMatch(short_form, long_form, si - 1, SetMax(hits) - 1)

\* while start_pos > 0 and long_form[start_pos - 1] not in ' \t\n' (1-based here)
RECURSIVE WordBoundary(_, _)
WordBoundary(long_form, start_pos) ==
    IF start_pos > 1 /\ long_form[start_pos - 1] \notin {" ", "\t", "\n"}
    THEN WordBoundary(long_form, start_pos - 1)
    ELSE start_pos

\* None is [found |-> FALSE]
None == [found |-> FALSE]
Some(v) == [found |-> TRUE, value |-> v]

\* find_best_long_form without the word-boundary loop: the result starts at
\* the matched character
find_best_long_form_no_boundary(short_form0, long_form_candidate) ==
    LET short_form == str_strip(short_form0)
        long_form == str_strip(long_form_candidate)
        lf_index == BackwardMatch(short_form, long_form, Len(short_form), Len(long_form))
        matched_long_form == str_strip(SubSeq(long_form, lf_index + 1, Len(long_form)))
    IN  IF extract_min_max(short_form, long_form) = NoBounds THEN None
        ELSE IF lf_index = -1 THEN None
        ELSE IF Len(matched_long_form) > 0 THEN Some(matched_long_form) ELSE None

find_best_long_form(short_form0, long_form_candidate) ==
    LET short_form == str_strip(short_form0)
        long_form == str_strip(long_form_candidate)
        bounds == extract_min_max(short_form, long_form)
        lf_index == BackwardMatch(short_form, long_form, Len(short_form), Len(long_form))
        start_pos == WordBoundary(long_form, lf_index + 1)
        matched_long_form == str_strip(SubSeq(long_form, start_pos, Len(long_form)))
    IN  IF bounds = NoBounds THEN None
        ELSE IF lf_index = -1 THEN None
        ELSE IF Len(matched_long_form) > 0 THEN Some(matched_long_form) ELSE None

sentence_markers == <<".", "!", "?", ";", ":">>

\* for marker in sentence_markers: cut after the last occurrence of the first
\* marker (in list order) that occurs at all, then break
RECURSIVE CutAtMarker(_, _)
CutAtMarker(long_form_candidate, k) ==
    IF k > Len(sentence_markers) THEN long_form_candidate
    ELSE LET last_pos == str_rfind(long_form_candidate, sentence_markers[k])
         IN  IF last_pos # 0
             THEN str_strip(SubSeq(long_form_candidate, last_pos + 1,
                                   Len(long_form_candidate)))
             ELSE CutAtMarker(long_form_candidate, k + 1)

\* the body of the finditer loop for one match (group 1, group 2)
\* (`at` keeps match.start(2) - 1, the position of the "(", with the pair)
CandidateOf(group1, group2, at) ==
    LET short_form == str_strip(group2)
        long_form_candidate == CutAtMarker(str_strip(group1), 1)
    IN  IF ~is_valid_acronym(short_form) THEN <<>>
        ELSE IF Len(long_form_candidate) = 0 THEN <<>>
        ELSE <<[short_form |-> short_form, long_form_candidate |-> long_form_candidate,
                at |-> at]>>

\* {0,200} of the pattern
MaxPreceding == 200
MinAcronymLen == 2
MaxAcronymLen == 10

\* re.finditer(r'([^(]{0,200})\(([A-Z]{2,10})\)', text) from position s: the
\* next match ends group 1 at the first "(" at or after s; when the
\* parenthesis does not hold 2-10 capitals the scan resumes after that "(".
RECURSIVE CandidatesFrom(_, _)
CandidatesFrom(txt, s) ==
    LET opens == {p \in s..Len(txt) : txt[p] = "("}
    IN  IF opens = {} THEN <<>>
        ELSE LET p == SetMin(opens)
                 run == RunLen(txt, p + 1, UpperSet)
                 ok == /\ run >= MinAcronymLen /\ run <= MaxAcronymLen
                       /\ CharAt(txt, p + 1 + run, {")"})
                 g1 == IF s > p - MaxPreceding THEN s ELSE p - MaxPreceding
             IN  IF ~ok THEN CandidatesFrom(txt, p + 1)
                 ELSE CandidateOf(SubSeq(txt, g1, p - 1), SubSeq(txt, p + 1, p + run), p)
                      \o CandidatesFrom(txt, p + run + 2)

extract_candidates_from_parentheses(txt) == CandidatesFrom(txt, 1)

RECURSIVE DropLeading(_)
DropLeading(words) ==
    IF Len(words) > 0
       /\ (str_lower(words[1]) \in sw_stop_words \/ ~CharAt(words[1], 1, UpperSet))
    THEN DropLeading(Tail(words))
    ELSE words

clean_long_form(long_form) ==
    LET words == DropLeading(str_split(long_form))
        n == Len(words)
        trimmed == IF n = 0 THEN words
                   ELSE [words EXCEPT ![n] =
                            str_rstrip(words[n], {".", ",", ";", ":", "!", "?"})]
        result == str_join(<<" ">>, trimmed)
    IN  IF Len(long_form) = 0 THEN <<>>
        ELSE IF Len(result) > 0 /\ result[1] \in LowerSet
             THEN <<ch_upper(result[1])>> \o Tail(result)
             ELSE result

verb_indicators ==
    {Chars(" has "), Chars(" have "), Chars(" is "), Chars(" are "),
     Chars(" was "), Chars(" were "), Chars(" established "), Chars(" created ")}

\* [w[0].upper() for w in words if w and w[0].isalpha()]
Initials(words) ==
    LET alpha == SelectSeq(words, LAMBDA w : CharAt(w, 1, AlphaSet))
    IN  [i \in 1..Len(alpha) |-> ch_upper(alpha[i][1])]

\* the for/while loops counting the short-form characters found, in order,
\* among the initials; k is the short-form index, j the consuming cursor
RECURSIVE InitialMatches(_, _, _, _)
InitialMatches(short_form, initials, k, j) ==
    IF k > Len(short_form) THEN 0
    ELSE LET hits == {i \in j..Len(initials) : initials[i] = short_form[k]}
         IN  IF hits = {}
             THEN InitialMatches(short_form, initials, k + 1, Len(initials) + 1)
             ELSE 1 + InitialMatches(short_form, initials, k + 1, SetMin(hits) + 1)

\* validate_long_form without the 40% capitalisation test
validate_long_form_no_caps(short_form, long_form) ==
    LET words == str_split(long_form)
        initials == Initials(words)
        matches == InitialMatches(short_form, initials, 1, 1)
    IN  IF Len(long_form) < 3 THEN FALSE
        ELSE IF Len(words) < 2 THEN FALSE
        ELSE IF str_isupper(long_form) /\ Len(words) >= 3 THEN FALSE
        ELSE IF \E indicator \in verb_indicators :
                    str_contains(str_lower(long_form), indicator) THEN FALSE
        ELSE IF Len(initials) >= 2
                /\ (Len(short_form) = 0 \/ 10 * matches < 3 * Len(short_form))
             THEN FALSE
        ELSE TRUE

\* validate_long_form without the initials check
validate_long_form_no_initials(short_form, long_form) ==
    LET words == str_split(long_form)
    IN  IF Len(long_form) < 3 THEN FALSE
        ELSE IF Len(words) < 2 THEN FALSE
        ELSE IF str_isupper(long_form) /\ Len(words) >= 3 THEN FALSE
        ELSE IF \E indicator \in verb_indicators :
                    str_contains(str_lower(long_form), indicator) THEN FALSE
        ELSE IF 10 * CapCount(words) < 4 * Len(words) THEN FALSE
        ELSE TRUE

validate_long_form(short_form, long_form) ==
    LET words == str_split(long_form)
        initials == Initials(words)
        matches == InitialMatches(short_form, initials, 1, 1)
    IN  IF Len(long_form) < 3 THEN FALSE
        ELSE IF Len(words) < 2 THEN FALSE
        ELSE IF str_isupper(long_form) /\ Len(words) >= 3 THEN FALSE
        ELSE IF \E indicator \in verb_indicators :
                    str_contains(str_lower(long_form), indicator) THEN FALSE
        ELSE IF 10 * CapCount(words) < 4 * Len(words) THEN FALSE
        ELSE IF Len(initials) >= 2
                /\ (Len(short_form) = 0 \/ 10 * matches < 3 * Len(short_form))
             THEN FALSE
        ELSE TRUE

(***************************************************************************)
(* Vocabulary mode (src/dict_ac.py): the pure functions                    *)
(***************************************************************************)
\* stopwords.words('english') of NLTK, the entries made of letters only
ac_stop_words ==
    {Chars("i"), Chars("me"), Chars("my"), Chars("myself"), Chars("we"),
     Chars("our"), Chars("ours"), Chars("ourselves"), Chars("you"),
     Chars("your"), Chars("yours"), Chars("yourself"), Chars("yourselves"),
     Chars("he"), Chars("him"), Chars("his"), Chars("himself"),
     Chars("she"), Chars("her"), Chars("hers"), Chars("herself"),
     Chars("it"), Chars("its"), Chars("itself"), Chars("they"),
     Chars("them"), Chars("their"), Chars("theirs"), Chars("themselves"),
     Chars("what"), Chars("which"), Chars("who"), Chars("whom"),
     Chars("this"), Chars("that"), Chars("these"), Chars("those"),
     Chars("am"), Chars("is"), Chars("are"), Chars("was"), Chars("were"),
     Chars("be"), Chars("been"), Chars("being"), Chars("have"),
     Chars("has"), Chars("had"), Chars("having"), Chars("do"),
     Chars("does"), Chars("did"), Chars("doing"), Chars("a"), Chars("an"),
     Chars("the"), Chars("and"), Chars("but"), Chars("if"), Chars("or"),
     Chars("because"), Chars("as"), Chars("until"), Chars("while"),
     Chars("of"), Chars("at"), Chars("by"), Chars("for"), Chars("with"),
     Chars("about"), Chars("against"), Chars("between"), Chars("into"),
     Chars("through"), Chars("during"), Chars("before"), Chars("after"),
     Chars("above"), Chars("below"), Chars("to"), Chars("from"),
     Chars("up"), Chars("down"), Chars("in"), Chars("out"), Chars("on"),
     Chars("off"), Chars("over"), Chars("under"), Chars("again"),
     Chars("further"), Chars("then"), Chars("once"), Chars("here"),
     Chars("there"), Chars("when"), Chars("where"), Chars("why"),
     Chars("how"), Chars("all"), Chars("any"), Chars("both"), Chars("each"),
     Chars("few"), Chars("more"), Chars("most"), Chars("other"),
     Chars("some"), Chars("such"), Chars("no"), Chars("nor"), Chars("not"),
     Chars("only"), Chars("own"), Chars("same"), Chars("so"), Chars("than"),
     Chars("too"), Chars("very"), Chars("s"), Chars("t"), Chars("can"),
     Chars("will"), Chars("just"), Chars("don"), Chars("should"),
     Chars("now"), Chars("d"), Chars("ll"), Chars("m"), Chars("o"),
     Chars("re"), Chars("ve"), Chars("y"), Chars("ain"), Chars("aren"),
     Chars("couldn"), Chars("didn"), Chars("doesn"), Chars("hadn"),
     Chars("hasn"), Chars("haven"), Chars("isn"), Chars("ma"),
     Chars("mightn"), Chars("mustn"), Chars("needn"), Chars("shan"),
     Chars("shouldn"), Chars("wasn"), Chars("weren"), Chars("won"),
     Chars("wouldn")}

known_mixed_acronyms ==
    {Chars("phd"), Chars("mba"), Chars("latex"), Chars("mysql"),
     Chars("postgresql"), Chars("javascript"), Chars("iphone"),
     Chars("ipad"), Chars("ipod"), Chars("macbook"), Chars("ios"),
     Chars("macos"), Chars("ebay"), Chars("etsy"), Chars("paypal"),
     Chars("linkedin"), Chars("youtube"), Chars("mphil"), Chars("btech"),
     Chars("mtech")}

ac_heading_keywords ==
    {Chars("chapter"), Chars("section"), Chars("part"), Chars("article"),
     Chars("annexure"), Chars("appendix"), Chars("volume"),
     Chars("abstract"), Chars("introduction"), Chars("conclusion"),
     Chars("summary"), Chars("references"), Chars("index"),
     Chars("contents")}

UpperCount(word) == Cardinality({i \in 1..Len(word) : word[i] \in UpperSet})

_is_acronym(word) ==
    \/ str_lower(word) \in known_mixed_acronyms
    \/ str_isupper(word) /\ Len(word) >= 2
    \/ UpperCount(word) >= 2 /\ Len(word) <= 6
    \/ /\ Len(word) >= 3 /\ UpperCount(word) >= 2
       /\ \E i \in 1..(Len(word) - 1) : word[i] \in UpperSet /\ word[i + 1] \in UpperSet

ac_is_heading(text_line0) ==
    LET text_line == str_strip(text_line0)
        words == str_split(text_line)
    IN  IF Len(text_line) = 0 \/ Len(words) = 0 THEN FALSE
        ELSE \/ str_isupper(text_line) /\ Len(words) <= 12
             \/ /\ 2 <= Len(words) /\ Len(words) <= 6
                /\ 10 * CapCount(words) >= 7 * Len(words)
             \/ \E keyword \in ac_heading_keywords :
                    str_startswith(str_lower(text_line), keyword)
             \/ str_endswith(text_line, <<":">>)
             \/ NumberedPrefix(text_line)

\* roman_pattern: M{0,3}(CM|CD|D?C{0,3})(XC|XL|L?X{0,3})(IX|IV|V?I{0,3}),
\* anchored, not empty (the lookahead), matched with re.IGNORECASE
RomanThousands == {Chars(""), Chars("M"), Chars("MM"), Chars("MMM")}
RomanHundreds ==
    {Chars("CM"), Chars("CD"), Chars(""), Chars("C"), Chars("CC"), Chars("CCC"),
     Chars("D"), Chars("DC"), Chars("DCC"), Chars("DCCC")}
RomanTens ==
    {Chars("XC"), Chars("XL"), Chars(""), Chars("X"), Chars("XX"), Chars("XXX"),
     Chars("L"), Chars("LX"), Chars("LXX"), Chars("LXXX")}
RomanOnes ==
    {Chars("IX"), Chars("IV"), Chars(""), Chars("I"), Chars("II"), Chars("III"),
     Chars("V"), Chars("VI"), Chars("VII"), Chars("VIII")}
RomanNumerals ==
    {m \o h \o t \o o :
        m \in RomanThousands, h \in RomanHundreds, t \in RomanTens, o \in RomanOnes}
    \ {<<>>}

str_upper(s) == [i \in 1..Len(s) |-> ch_upper(s[i])]

roman_pattern_match(word) == str_upper(word) \in RomanNumerals

\* re.sub(r'\s*\([^)]*\)', '', line), scanning from position i: the leftmost
\* run of whitespace followed by "(" and, later, a ")" is removed up to the
\* first ")" after that "("
ParenAt(line, j) == j + RunLen(line, j, WhiteSpace)
ClosesAfter(line, p) == {k \in (p + 1)..Len(line) : line[k] = ")"}

RECURSIVE RemoveParensFrom(_, _)
RemoveParensFrom(line, i) ==
    LET starts == {j \in i..Len(line) :
                      /\ CharAt(line, ParenAt(line, j), {"("})
                      /\ ClosesAfter(line, ParenAt(line, j)) # {}}
    IN  IF starts = {} THEN SubSeq(line, i, Len(line))
        ELSE LET a == SetMin(starts)
                 close == SetMin(ClosesAfter(line, ParenAt(line, a)))
             IN  SubSeq(line, i, a - 1) \o RemoveParensFrom(line, close + 1)

\* re.findall(r'\b[a-zA-Z]{2,}\b', cleaned_line)
MinWordLen == 2
LetterWords(cleaned_line) ==
    SelectSeq(WordRuns(cleaned_line),
              LAMBDA w : Len(w) >= MinWordLen /\ \A i \in 1..Len(w) : w[i] \in AlphaSet)

\* the words of one body line that reach the acronym test
LineWords(line) ==
    SelectSeq(LetterWords(RemoveParensFrom(line, 1)),
              LAMBDA word : /\ str_isalpha(word)
                            /\ ~roman_pattern_match(word)
                            /\ str_lower(word) \notin ac_stop_words)

\* every such word of the non-heading lines, in order
RECURSIVE BodyWords(_)
BodyWords(lines) ==
    IF Len(lines) = 0 THEN <<>>
    ELSE (IF ac_is_heading(lines[1]) THEN <<>> ELSE LineWords(lines[1]))
         \o BodyWords(Tail(lines))

\* dict counter: d[word] = d.get(word, 0) + 1 for every word of the sequence
RECURSIVE CountInto(_, _)
CountInto(counter, words) ==
    IF Len(words) = 0 THEN counter
    ELSE LET w == words[1]
             bumped == IF w \in DOMAIN counter
                       THEN [counter EXCEPT ![w] = @ + 1]
                       ELSE [k \in DOMAIN counter \cup {w} |->
                                IF k = w THEN 1 ELSE counter[k]]
         IN  CountInto(bumped, Tail(words))

\* extract_words_from_text: the returned lowercase_words, and
\* standalone_acronyms_seen after the call
extract_words_lowercase(lines) ==
    LET regular == SelectSeq(BodyWords(lines), LAMBDA word : ~_is_acronym(word))
    IN  [i \in 1..Len(regular) |-> str_lower(regular[i])]

\* the words of the lines that are counted as standalone acronyms
acronym_words(lines) == SelectSeq(BodyWords(lines), LAMBDA word : _is_acronym(word))

extract_words_standalone(acronyms, seen) == CountInto(seen, acronyms)

\* update_word_data counting into a fresh dict: the counts of one document
update_word_data_reset(lowercase_words, seen) == CountInto(<<>>, lowercase_words)

update_word_data(lowercase_words, seen) == CountInto(seen, lowercase_words)

\* extract_text_from_pdf of dict_ac.py on the page texts of a document
RECURSIVE PageLines(_)
PageLines(pages) ==
    IF Len(pages) = 0 THEN <<>>
    ELSE LET stripped == [i \in 1..Len(str_split_on(pages[1], "\n")) |->
                             str_strip(str_split_on(pages[1], "\n")[i])]
         IN  SelectSeq(stripped, LAMBDA line : Len(line) > 0) \o PageLines(Tail(pages))

\* extract_text_from_pdf of dict_sw.py on the page texts of a document
RECURSIVE PageText(_)
PageText(pages) ==
    IF Len(pages) = 0 THEN <<>>
    ELSE pages[1] \o <<"\n">> \o PageText(Tail(pages))

(***************************************************************************)
(* Aggregator updates of extract_acronyms (src/dict_sw.py)                 *)
(***************************************************************************)
\* d[key] += 1 on a defaultdict(int)
Bump(counter, key) ==
    IF key \in DOMAIN counter
    THEN [counter EXCEPT ![key] = @ + 1]
    ELSE [k \in DOMAIN counter \cup {key} |-> IF k = key THEN 1 ELSE counter[k]]

\* store_mapping without the membership test: the last long form wins
store_mapping_overwrite(mappings, short_form, long_form) ==
    [k \in DOMAIN mappings \cup {short_form} |->
        IF k = short_form THEN long_form ELSE mappings[k]]

\* if short_form not in self.acronym_mappings: self.acronym_mappings[short_form] = long_form
store_mapping(mappings, short_form, long_form) ==
    IF short_form \in DOMAIN mappings THEN mappings
    ELSE [k \in DOMAIN mappings \cup {short_form} |->
             IF k = short_form THEN long_form ELSE mappings[k]]

\* lines 342-352 for one candidate: the long form that reaches the store, if any
AcceptedLongForm(candidate) ==
    LET found == find_best_long_form(candidate.short_form, candidate.long_form_candidate)
        long_form == clean_long_form(found.value)
    IN  IF ~found.found THEN None
        ELSE IF ~validate_long_form(candidate.short_form, long_form) THEN None
        ELSE Some(long_form)

\* count_mapping inside the "not in self.acronym_mappings" branch: only the
\* first validated candidate of a short form is counted
count_mapping_once(frequencies, short_form) ==
    IF short_form \in DOMAIN frequencies THEN frequencies ELSE Bump(frequencies, short_form)

\* count_mapping with the increment left out
count_mapping_skip(frequencies, short_form) == frequencies

\* self.acronym_frequencies[short_form] += 1 for a validated candidate
count_mapping(frequencies, short_form) == Bump(frequencies, short_form)

\* lines 340-352 over the candidates: those that pass the matching, the
\* cleaning and the validation, each with its long form, in document order
AcceptedCandidates(candidates) ==
    LET results == [i \in 1..Len(candidates) |->
                       [short_form |-> candidates[i].short_form,
                        accepted |-> AcceptedLongForm(candidates[i])]]
        kept == SelectSeq(results, LAMBDA r : r.accepted.found)
    IN  [i \in 1..Len(kept) |->
            [short_form |-> kept[i].short_form, long_form |-> kept[i].accepted.value]]

\* lines 354-359 for the accepted candidates in turn: the two tables after the loop
RECURSIVE StoreCandidates(_, _, _)
StoreCandidates(accepted, mappings, frequencies) ==
    IF Len(accepted) = 0 THEN [mappings |-> mappings, frequencies |-> frequencies]
    ELSE StoreCandidates(Tail(accepted),
                         store_mapping(mappings, accepted[1].short_form,
                                       accepted[1].long_form),
                         count_mapping(frequencies, accepted[1].short_form))

\* re.findall(r'\b[A-Z]{2,10}\b', text)
all_acronyms(txt) ==
    SelectSeq(WordRuns(txt),
              LAMBDA w : /\ Len(w) >= MinAcronymLen /\ Len(w) <= MaxAcronymLen
                         /\ \A i \in 1..Len(w) : w[i] \in UpperSet)

\* count_standalone without the "not in self.acronym_mappings" test
count_standalone_all(acronyms, mappings, standalone) ==
    CountInto(standalone, SelectSeq(acronyms, LAMBDA acronym : is_valid_acronym(acronym)))

\* the for loop over all_acronyms: standalone_acronyms after it
count_standalone(acronyms, mappings, standalone) ==
    CountInto(standalone,
              SelectSeq(acronyms,
                        LAMBDA acronym : /\ is_valid_acronym(acronym)
                                         /\ acronym \notin DOMAIN mappings))

\* the rows save_results writes (the source sorts them by acronym; the order
\* of the rows is not modelled).  acronym_frequencies is a defaultdict.
Lookup(counter, key) == IF key \in DOMAIN counter THEN counter[key] ELSE 0

mapping_rows(mappings, frequencies) ==
    {[acronym |-> a, full_form |-> mappings[a], frequency |-> Lookup(frequencies, a)] :
        a \in DOMAIN mappings}

\* the rows of an acronym/frequency or word/frequency table
counter_rows(counter) ==
    {[key |-> a, frequency |-> counter[a]] : a \in DOMAIN counter}

(***************************************************************************)
(* The documents of the input folder: each file name with its page texts   *)
(***************************************************************************)
DocNames == {"nato.pdf", "define.pdf", "twice.pdf", "late.pdf", "cover.pdf"}

DocPages(pdf) ==
    CASE pdf = "nato.pdf" ->
           <<Chars("CHAPTER 1: INTRODUCTION"),
             Chars("the North Atlantic Treaty Organization (NATO) uses RD radar.")>>
      [] pdf = "define.pdf" ->
           <<Chars("the annual report on Research And Development (RD) was late.\nthe RD lab uses RD radar.")>>
      [] pdf = "twice.pdf" ->
           <<Chars("our Rapid Deployment (RD) team and the Research And Development (RD) unit met.")>>
      [] pdf = "late.pdf" ->
           <<Chars("the RD lab was busy.\nthe annual report on Research And Development (RD) was late.")>>
      [] pdf = "cover.pdf" ->
           <<Chars("CHAPTER 1: INTRODUCTION")>>

\* number of files a listing of the input folder holds at most
MaxDocs == 2

RECURSIVE Listings(_)
Listings(n) ==
    IF n = 0 THEN {<<>>}
    ELSE LET shorter == Listings(n - 1)
         IN  shorter \cup
             {Append(l, pdf) : l \in {x \in shorter : Len(x) = n - 1},
                               pdf \in DocNames} 

\* os.listdir names every file once, in an order of its own
Distinct(l) == \A i, j \in 1..Len(l) : i # j => l[i] # l[j]
PossibleListings == {l \in Listings(MaxDocs) : Distinct(l)}

\* what extract_text_from_pdf can return for a document of the folder: its
\* text (dict_sw.py) or its lines (dict_ac.py), or nothing when fitz raises
DocTexts == {<<>>} \cup {PageText(DocPages(pdf)) : pdf \in DocNames}

DocLines == {<<>>} \cup {PageLines(DocPages(pdf)) : pdf \in DocNames}

\* the parts of extract_acronyms and extract_words_from_text that depend on
\* the document alone, tabulated for the documents of the folder
BodyOf == [t \in DocTexts |-> remove_headings_from_text(t)]

AcceptedOf ==
    [t \in DocTexts |->
        AcceptedCandidates(extract_candidates_from_parentheses(BodyOf[t]))]

AcronymsOf == [body \in {BodyOf[t] : t \in DocTexts} |-> all_acronyms(body)]

LowercaseWordsOf == [lines \in DocLines |-> extract_words_lowercase(lines)]

AcronymWordsOf == [lines \in DocLines |-> acronym_words(lines)]

(***************************************************************************)
(* State                                                                   *)
(***************************************************************************)
VARIABLES
    mode,                     \* "sw": SchwartzHearstExtractor, "ac": NavalDocumentProcessor
    pc,                       \* position of the batch run
    pdf_files,                \* the listing process_all_pdfs / process_all_documents iterates
    idx,                      \* index in pdf_files of the document at hand
    text,                     \* process_pdf's local: the text (sw) or the lines (ac)
    lowercase_words,          \* process_pdf's local of dict_ac.py
    acronym_mappings,         \* self.acronym_mappings
    acronym_frequencies,      \* self.acronym_frequencies
    standalone_acronyms,      \* self.standalone_acronyms
    lowercase_seen,           \* self.lowercase_seen
    standalone_acronyms_seen, \* self.standalone_acronyms_seen
    csv,                      \* rows of the two output CSV files as last written
    written,                  \* the CSV files that exist
    log,                      \* the documents recorded in processing_log.txt
    attempt,                  \* safe_delete's loop variable
    deleted,                  \* source files removed by os.remove
    printed,                  \* what safe_delete has printed for the document at hand
    attempted,                \* documents process_pdf was called on, in call order
    persisted,                \* documents whose call wrote both CSV files
    skipped,                  \* documents whose call returned before saving
    failed,                   \* documents whose call raised into the batch loop
    m_pc,                     \* position in the loop body of extract_acronyms for one candidate
    m_short_form,             \* the candidate's short form
    m_candidate,              \* the candidate's long_form_candidate
    m_found,                  \* result of find_best_long_form
    m_long_form,              \* long_form after clean_long_form
    m_valid                   \* result of validate_long_form

batch_vars ==
    <<mode, pc, pdf_files, idx, text, lowercase_words, acronym_mappings,
      acronym_frequencies, standalone_acronyms, lowercase_seen,
      standalone_acronyms_seen, csv, written, log, attempt, deleted, printed,
      attempted,
      persisted, skipped, failed>>

match_vars == <<m_pc, m_short_form, m_candidate, m_found, m_long_form, m_valid>>

vars == <<batch_vars, match_vars>>

tables ==
    <<acronym_mappings, acronym_frequencies, standalone_acronyms, lowercase_seen,
      standalone_acronyms_seen>>

outputs == <<csv, written, log, deleted, printed>>

history == <<attempted, persisted, skipped, failed>>

\* safe_delete(file_path, retries=5, delay=1)
retries == 5

EmptyCsv(m) ==
    IF m = "sw" THEN [mapping_csv |-> {}, standalone_csv |-> {}]
    ELSE [lowercase_csv |-> {}, standalone_acronyms_csv |-> {}]

CsvFiles(m) ==
    IF m = "sw" THEN {"mapping_csv", "standalone_csv"}
    ELSE {"lowercase_csv", "standalone_acronyms_csv"}

MatchIdle ==
    /\ m_pc = "idle"
    /\ m_short_form = <<>>
    /\ m_candidate = <<>>
    /\ m_found = None
    /\ m_long_form = <<>>
    /\ m_valid = FALSE

\* __init__ of either class, before process_all_pdfs / process_all_documents
BatchInit(m) ==
    /\ mode = m
    /\ pdf_files = <<>>
    /\ idx = 1
    /\ text = <<>>
    /\ lowercase_words = <<>>
    /\ acronym_mappings = <<>>
    /\ acronym_frequencies = <<>>
    /\ standalone_acronyms = <<>>
    /\ lowercase_seen = <<>>
    /\ standalone_acronyms_seen = <<>>
    /\ csv = EmptyCsv(m)
    /\ written = {}
    /\ log = <<>>
    /\ attempt = 0
    /\ deleted = {}
    /\ printed = <<>>
    /\ attempted = <<>>
    /\ persisted = {}
    /\ skipped = {}
    /\ failed = {}

Init ==
    /\ \E m \in {"sw", "ac"} : BatchInit(m)
    /\ pc = "start"
    /\ MatchIdle

pdf_path == pdf_files[idx]

(***************************************************************************)
(* The batch loop (process_all_pdfs, process_all_documents)                *)
(***************************************************************************)
\* os.listdir, the early returns on an error and on an empty listing
ListFiles ==
    /\ pc = "start"
    /\ \/ \E listing \in PossibleListings :
              /\ pdf_files' = listing
              /\ pc' = IF Len(listing) = 0 THEN "returned" ELSE "loop"
       \/ /\ pdf_files' = <<>>
          /\ pc' = "returned"
    /\ UNCHANGED <<mode, idx, text, lowercase_words, tables, outputs, attempt, history>>
    /\ UNCHANGED match_vars

\* for pdf_path in pdf_files: try: self.process_pdf(pdf_path); after the
\* loop the run prints PROCESSING COMPLETE
LoopNext ==
    /\ pc = "loop"
    /\ IF idx <= Len(pdf_files)
       THEN /\ attempted' = Append(attempted, pdf_path)
            /\ printed' = <<>>
            /\ pc' = "extract"
       ELSE /\ pc' = "done"
            /\ UNCHANGED <<attempted, printed>>
    /\ UNCHANGED <<mode, pdf_files, idx, text, lowercase_words, tables, csv, written,
                   log, deleted, attempt, persisted, skipped, failed>>
    /\ UNCHANGED match_vars

\* process_pdf returns: its locals go, the loop takes the next document
Return ==
    /\ idx' = idx + 1
    /\ pc' = "loop"
    /\ text' = <<>>
    /\ lowercase_words' = <<>>
    /\ attempt' = 0

\* the handler re-raising: the batch loop ends at the first failure
Catch_abort ==
    /\ idx' = idx
    /\ pc' = "aborted"
    /\ text' = <<>>
    /\ lowercase_words' = <<>>
    /\ attempt' = 0
    /\ failed' = failed \cup {pdf_path}

\* except Exception as e: print, traceback.print_exc(); the loop goes on
Catch ==
    /\ idx' = idx + 1
    /\ pc' = "loop"
    /\ text' = <<>>
    /\ lowercase_words' = <<>>
    /\ attempt' = 0
    /\ failed' = failed \cup {pdf_path}

(***************************************************************************)
(* process_pdf of dict_sw.py                                               *)
(***************************************************************************)
\* process_pdf of dict_sw.py without the return after "No text extracted!"
sw_ExtractText_no_return ==
    /\ pc = "extract" /\ mode = "sw"
    /\ \E readable \in BOOLEAN :
          text' = IF readable THEN PageText(DocPages(pdf_path)) ELSE <<>>
    /\ pc' = "acronyms"
    /\ UNCHANGED <<mode, pdf_files, idx, lowercase_words, tables, outputs, attempt, history>>
    /\ UNCHANGED match_vars

\* text = self.extract_text_from_pdf(pdf_path); if not text: return.
\* extract_text_from_pdf returns "" when fitz raises.
sw_ExtractText ==
    /\ pc = "extract" /\ mode = "sw"
    /\ \E readable \in BOOLEAN :
          LET t == IF readable THEN PageText(DocPages(pdf_path)) ELSE <<>>
          IN  IF Len(t) = 0
              THEN /\ Return
                   /\ skipped' = skipped \cup {pdf_path}
              ELSE /\ text' = t
                   /\ pc' = "acronyms"
                   /\ UNCHANGED <<idx, lowercase_words, attempt, skipped>>
    /\ UNCHANGED <<mode, pdf_files, tables, outputs, attempted, persisted, failed>>
    /\ UNCHANGED match_vars

\* extract_acronyms, lines 332-359: headings removed, candidates stored
sw_StoreCandidates ==
    /\ pc = "acronyms" /\ mode = "sw"
    /\ LET body == BodyOf[text]
           stored == StoreCandidates(AcceptedOf[text], acronym_mappings,
                                     acronym_frequencies)
       IN  /\ text' = body
           /\ acronym_mappings' = stored.mappings
           /\ acronym_frequencies' = stored.frequencies
    /\ pc' = "standalone"
    /\ UNCHANGED <<mode, pdf_files, idx, lowercase_words, standalone_acronyms,
                   lowercase_seen, standalone_acronyms_seen, outputs, attempt, history>>
    /\ UNCHANGED match_vars

\* extract_acronyms, lines 363-367: the standalone acronyms counted
sw_CountStandalone ==
    /\ pc = "standalone" /\ mode = "sw"
    /\ standalone_acronyms' = count_standalone(AcronymsOf[text], acronym_mappings,
                                            standalone_acronyms)
    /\ pc' = "save"
    /\ UNCHANGED <<mode, pdf_files, idx, text, lowercase_words, acronym_mappings,
                   acronym_frequencies, lowercase_seen, standalone_acronyms_seen,
                   outputs, attempt, history>>
    /\ UNCHANGED match_vars

\* save_results building the standalone rows from acronym_frequencies
save_results_swapped(mappings, frequencies, standalone) ==
    [mapping_csv |-> mapping_rows(mappings, frequencies),
     standalone_csv |-> counter_rows(frequencies)]

\* what save_results writes to the two files
save_results(mappings, frequencies, standalone) ==
    [mapping_csv |-> mapping_rows(mappings, frequencies),
     standalone_csv |-> counter_rows(standalone)]

\* process_pdf with the exception of save_results swallowed: the deletion
\* follows whether or not the files were written
sw_SaveResults_swallow ==
    /\ pc = "save" /\ mode = "sw"
    /\ \/ /\ csv' = save_results(acronym_mappings, acronym_frequencies, standalone_acronyms)
          /\ written' = written \cup {"mapping_csv", "standalone_csv"}
          /\ persisted' = persisted \cup {pdf_path}
       \/ UNCHANGED <<csv, written, persisted>>
    /\ pc' = "delete"
    /\ UNCHANGED <<idx, text, lowercase_words, attempt, failed>>
    /\ UNCHANGED <<mode, pdf_files, tables, log, deleted, printed, attempted,
                   skipped>>
    /\ UNCHANGED match_vars

\* self.save_results(): either to_csv may raise (the file is locked, the disk
\* is full); the first file is then already written when the second raises
sw_SaveResults ==
    /\ pc = "save" /\ mode = "sw"
    /\ LET rows == save_results(acronym_mappings, acronym_frequencies, standalone_acronyms)
       IN  \/ /\ csv' = rows
              /\ written' = written \cup {"mapping_csv", "standalone_csv"}
              /\ persisted' = persisted \cup {pdf_path}
              /\ pc' = "delete"
              /\ UNCHANGED <<idx, text, lowercase_words, attempt, failed>>
           \/ /\ Catch
              /\ UNCHANGED <<csv, written, persisted>>
           \/ /\ csv' = [csv EXCEPT !.mapping_csv = rows.mapping_csv]
              /\ written' = written \cup {"mapping_csv"}
              /\ Catch
              /\ UNCHANGED persisted
    /\ UNCHANGED <<mode, pdf_files, tables, log, deleted, printed, attempted,
                   skipped>>
    /\ UNCHANGED match_vars

(***************************************************************************)
(* safe_delete (the same function in both files), one attempt per step     *)
(***************************************************************************)
\* safe_delete retrying after every PermissionError, with no bound
SafeDelete_unbounded ==
    /\ pc = "delete"
    /\ \/ /\ pdf_path \notin deleted
          /\ deleted' = deleted \cup {pdf_path}
          /\ printed' = Append(printed, "deleted")
          /\ Return
       \/ /\ UNCHANGED deleted
          /\ printed' = printed
          /\ Return
       \/ /\ UNCHANGED deleted
          /\ printed' = Append(printed, "retrying")
          /\ attempt' = attempt + 1
          /\ UNCHANGED <<pc, idx, text, lowercase_words>>
       \/ /\ UNCHANGED deleted
          /\ printed' = Append(printed, "error")
          /\ Return
    /\ UNCHANGED <<mode, pdf_files, tables, csv, written, log, history>>
    /\ UNCHANGED match_vars

SafeDelete ==
    /\ pc = "delete"
    /\ attempt < retries
    /\ LET so_far == printed
       IN  \/ /\ pdf_path \notin deleted           \* os.remove succeeds; break
              /\ deleted' = deleted \cup {pdf_path}
              /\ printed' = Append(so_far, "deleted")
              /\ Return
           \/ /\ UNCHANGED deleted                 \* the file is gone already; break
              /\ printed' = so_far
              /\ Return
           \/ /\ UNCHANGED deleted                 \* PermissionError: sleep, next attempt
              /\ printed' = Append(so_far, "retrying")
              /\ IF attempt + 1 < retries
                 THEN /\ attempt' = attempt + 1
                      /\ UNCHANGED <<pc, idx, text, lowercase_words>>
                 ELSE Return
           \/ /\ UNCHANGED deleted                 \* any other Exception; break
              /\ printed' = Append(so_far, "error")
              /\ Return
    /\ UNCHANGED <<mode, pdf_files, tables, csv, written, log, history>>
    /\ UNCHANGED match_vars

(***************************************************************************)
(* process_pdf of dict_ac.py                                               *)
(***************************************************************************)
\* lines, num_pages = self.extract_text_from_pdf(pdf_path); if not lines: return.
\* extract_text_from_pdf returns [], 0 when fitz raises.
ac_ExtractText ==
    /\ pc = "extract" /\ mode = "ac"
    /\ \E readable \in BOOLEAN :
          LET lines == IF readable THEN PageLines(DocPages(pdf_path)) ELSE <<>>
          IN  IF Len(lines) = 0
              THEN /\ Return
                   /\ skipped' = skipped \cup {pdf_path}
              ELSE /\ text' = lines
                   /\ pc' = "words"
                   /\ UNCHANGED <<idx, lowercase_words, attempt, skipped>>
    /\ UNCHANGED <<mode, pdf_files, tables, outputs, attempted, persisted, failed>>
    /\ UNCHANGED match_vars

\* lowercase_words = self.extract_words_from_text(lines), which counts the
\* standalone acronyms itself; then the "No valid words found" return
ac_ExtractWords ==
    /\ pc = "words" /\ mode = "ac"
    /\ LET words == LowercaseWordsOf[text]
           seen == extract_words_standalone(AcronymWordsOf[text],
                                            standalone_acronyms_seen)
       IN  /\ standalone_acronyms_seen' = seen
           /\ IF Len(words) = 0 /\ DOMAIN seen = {}
              THEN /\ Return
                   /\ skipped' = skipped \cup {pdf_path}
              ELSE /\ lowercase_words' = words
                   /\ pc' = "update"
                   /\ UNCHANGED <<idx, text, attempt, skipped>>
    /\ UNCHANGED <<mode, pdf_files, acronym_mappings, acronym_frequencies,
                   standalone_acronyms, lowercase_seen, outputs, attempted,
                   persisted, failed>>
    /\ UNCHANGED match_vars

\* self.update_word_data(lowercase_words)
ac_UpdateWordData ==
    /\ pc = "update" /\ mode = "ac"
    /\ lowercase_seen' = update_word_data(lowercase_words, lowercase_seen)
    /\ pc' = "save"
    /\ UNCHANGED <<mode, pdf_files, idx, text, lowercase_words, acronym_mappings,
                   acronym_frequencies, standalone_acronyms, standalone_acronyms_seen,
                   outputs, attempt, history>>
    /\ UNCHANGED match_vars

\* what save_to_csv writes to the two files
save_to_csv(lowercase, standalone) ==
    [lowercase_csv |-> counter_rows(lowercase),
     standalone_acronyms_csv |-> counter_rows(standalone)]

\* self.save_to_csv(): either to_csv may raise
ac_SaveToCsv ==
    /\ pc = "save" /\ mode = "ac"
    /\ LET rows == save_to_csv(lowercase_seen, standalone_acronyms_seen)
       IN  \/ /\ csv' = rows
              /\ written' = written \cup {"lowercase_csv", "standalone_acronyms_csv"}
              /\ persisted' = persisted \cup {pdf_path}
              /\ pc' = "log"
              /\ UNCHANGED <<idx, text, lowercase_words, attempt, failed>>
           \/ /\ Catch
              /\ UNCHANGED <<csv, written, persisted>>
           \/ /\ csv' = [csv EXCEPT !.lowercase_csv = rows.lowercase_csv]
              /\ written' = written \cup {"lowercase_csv"}
              /\ Catch
              /\ UNCHANGED persisted
    /\ UNCHANGED <<mode, pdf_files, tables, log, deleted, printed, attempted,
                   skipped>>
    /\ UNCHANGED match_vars

\* self.log_document_results(...): open(self.log_file, 'a') may raise
ac_LogDocumentResults ==
    /\ pc = "log" /\ mode = "ac"
    /\ \/ /\ log' = Append(log, pdf_path)
          /\ pc' = "delete"
          /\ UNCHANGED <<idx, text, lowercase_words, attempt, failed>>
       \/ /\ Catch
          /\ UNCHANGED log
    /\ UNCHANGED <<mode, pdf_files, tables, csv, written, deleted, printed, attempted,
                   persisted, skipped>>
    /\ UNCHANGED match_vars

(***************************************************************************)
(* The batch run                                                           *)
(***************************************************************************)
Next ==
    \/ ListFiles
    \/ LoopNext
    \/ sw_ExtractText
    \/ sw_StoreCandidates
    \/ sw_CountStandalone
    \/ sw_SaveResults
    \/ ac_ExtractText
    \/ ac_ExtractWords
    \/ ac_UpdateWordData
    \/ ac_SaveToCsv
    \/ ac_LogDocumentResults
    \/ SafeDelete

Spec == Init /\ [][Next]_vars

\* the run is one sequential thread: it takes its next step as long as it has one
FairSpec == Spec /\ WF_vars(Next)

(***************************************************************************)
(* The loop body of extract_acronyms on one candidate, step by step, from  *)
(* an empty extractor: find_best_long_form, clean_long_form,               *)
(* validate_long_form, then the store                                      *)
(***************************************************************************)
MatchShortForms == {Chars("RD"), Chars("NATO"), Chars("RAD"), Chars("DR")}

MatchWords ==
    {Chars("the"), Chars("report"), Chars("on"), Chars("Research"), Chars("And"),
     Chars("Development")}

\* number of words of a generated candidate clause
MaxCandWords == 3

RECURSIVE Clauses(_)
Clauses(n) ==
    IF n = 1 THEN MatchWords
    ELSE LET shorter == Clauses(n - 1)
         IN  shorter \cup
             {c \o <<" ">> \o w : c \in shorter, w \in MatchWords}

MatchCandidates ==
    Clauses(MaxCandWords) \cup
    {Chars("the North Atlantic Treaty Organization"),
     Chars("annual report on Research And Development"),
     Chars("  annual report\ton\nResearch  And Development "),
     Chars("annual report on\rResearch And Development"),
     Chars("our Rapid Deployment"),
     Chars("Research on the annual And Development"),
     Chars("RD")}

MatchInit ==
    /\ BatchInit("sw")
    /\ pc = "idle"
    /\ m_pc = "match"
    /\ m_short_form \in MatchShortForms
    /\ m_candidate \in MatchCandidates
    /\ m_found = None
    /\ m_long_form = <<>>
    /\ m_valid = FALSE

\* long_form = self.find_best_long_form(short_form, long_form_candidate);
\* if not long_form: continue
m_Match ==
    /\ m_pc = "match"
    /\ m_found' = find_best_long_form(m_short_form, m_candidate)
    /\ m_pc' = IF m_found'.found THEN "clean" ELSE "dropped"
    /\ UNCHANGED <<m_short_form, m_candidate, m_long_form, m_valid, batch_vars>>

\* long_form = self.clean_long_form(long_form)
m_Clean ==
    /\ m_pc = "clean"
    /\ m_long_form' = clean_long_form(m_found.value)
    /\ m_pc' = "validate"
    /\ UNCHANGED <<m_short_form, m_candidate, m_found, m_valid, batch_vars>>

\* if not self.validate_long_form(short_form, long_form): continue
m_Validate ==
    /\ m_pc = "validate"
    /\ m_valid' = validate_long_form(m_short_form, m_long_form)
    /\ m_pc' = IF m_valid' THEN "store" ELSE "dropped"
    /\ UNCHANGED <<m_short_form, m_candidate, m_found, m_long_form, batch_vars>>

\* lines 354-359: the mapping stored, the frequency counted
m_Store ==
    /\ m_pc = "store"
    /\ acronym_mappings' = store_mapping(acronym_mappings, m_short_form, m_long_form)
    /\ acronym_frequencies' = count_mapping(acronym_frequencies, m_short_form)
    /\ m_pc' = "stored"
    /\ UNCHANGED <<m_short_form, m_candidate, m_found, m_long_form, m_valid>>
    /\ UNCHANGED <<mode, pc, pdf_files, idx, text, lowercase_words, standalone_acronyms,
                   lowercase_seen, standalone_acronyms_seen, outputs, attempt, history>>

MatchNext ==
    \/ m_Match
    \/ m_Clean
    \/ m_Validate
    \/ m_Store

MatchSpec == MatchInit /\ [][MatchNext]_vars

(***************************************************************************)
(* validate_long_form on long forms given directly, then the store         *)
(***************************************************************************)
ValidateShortForms == {Chars("RD"), Chars("NATO")}

ValidateWords ==
    {Chars("is"), Chars("the"), Chars("best"), Chars("on"), Chars("Research"),
     Chars("Development"), Chars("NORTH"), Chars("3rd")}

\* number of words of a generated long form
MaxLongWords == 3

RECURSIVE Phrases(_)
Phrases(n) ==
    IF n = 1 THEN ValidateWords
    ELSE LET shorter == Phrases(n - 1)
         IN  shorter \cup
             {c \o <<" ">> \o w : c \in shorter, w \in ValidateWords}

ValidateLongForms ==
    Phrases(MaxLongWords) \cup {Chars(""), Chars("RD"), Chars("A B"), Chars("R  D")}

ValidateInit ==
    /\ BatchInit("sw")
    /\ pc = "idle"
    /\ m_pc = "validate"
    /\ m_short_form \in ValidateShortForms
    /\ m_candidate = <<>>
    /\ m_found = None
    /\ m_long_form \in ValidateLongForms
    /\ m_valid = FALSE

ValidateNext ==
    \/ m_Validate
    \/ m_Store

ValidateSpec == ValidateInit /\ [][ValidateNext]_vars

(***************************************************************************)
(* extract_acronyms on a text given directly: the headings removed, the    *)
(* candidates extracted, then one candidate of the loop followed through   *)
(* matching, cleaning, validation and the store                            *)
(***************************************************************************)
ExtractMarks == {"", ".", "!", "?", ";", ":"}

\* two leading clauses, each closed by one of the marks or by none, before
\* the defining clause
ExtractTexts ==
    {Chars("See notes") \o Chars(m1) \o Chars(" Second part") \o Chars(m2)
        \o Chars(" Research And Development (RD)") : m1, m2 \in ExtractMarks}

ExtractInit ==
    /\ BatchInit("sw")
    /\ pc = "idle"
    /\ m_pc = "extract"
    /\ m_short_form = <<>>
    /\ m_candidate = <<>>
    /\ m_found = None
    /\ m_long_form = <<>>
    /\ m_valid = FALSE

\* text = self.remove_headings_from_text(text);
\* candidates = self.extract_candidates_from_parentheses(text);
\* for short_form, long_form_candidate in candidates:
m_Extract ==
    /\ m_pc = "extract"
    /\ \E txt \in ExtractTexts :
           /\ text' = remove_headings_from_text(txt)
           /\ LET candidates == extract_candidates_from_parentheses(text')
              IN  \E i \in DOMAIN candidates :
                      /\ m_short_form' = candidates[i].short_form
                      /\ m_candidate' = candidates[i].long_form_candidate
    /\ m_pc' = "match"
    /\ UNCHANGED <<m_found, m_long_form, m_valid>>
    /\ UNCHANGED <<mode, pc, pdf_files, idx, lowercase_words, tables, outputs, attempt,
                   history>>

ExtractNext ==
    \/ m_Extract
    \/ m_Match
    \/ m_Clean
    \/ m_Validate
    \/ m_Store

ExtractSpec == ExtractInit /\ [][ExtractNext]_vars

(***************************************************************************)
(* Properties                                                              *)
(***************************************************************************)
NatoShort == Chars("NATO")
NatoClause == Chars("the North Atlantic Treaty Organization")
NatoLong == Chars("North Atlantic Treaty Organization")

\* C3: for short form "NATO" and candidate clause "the North Atlantic Treaty
\* Organization", find_best_long_form returns "North Atlantic Treaty
\* Organization", the validator accepts it (the candidate is not dropped) and
\* the mapping NATO -> "North Atlantic Treaty Organization" is stored.
C3_SchwartzHearstMatch ==
    (m_short_form = NatoShort /\ m_candidate = NatoClause) =>
        /\ m_pc # "match" => m_found = Some(NatoLong)
        /\ m_pc # "dropped"
        /\ m_pc = "stored" => acronym_mappings = (NatoShort :> NatoLong)

RdShort == Chars("RD")
RdClause == Chars("annual report on Research And Development")
RdLong == Chars("Research And Development")

\* When find_best_long_form has succeeded: the result is the suffix of the
\* trimmed candidate that starts at `start`; `start` is index 1 or follows a
\* character of `breaks`; no character of `breaks` lies between `start` and the
\* position where the first short-form character was matched (they are in one
\* word); and the "RD" example gives exactly "Research And Development".
BoundaryExtraction(breaks) ==
    m_found.found =>
        LET short_form == str_strip(m_short_form)
            long_form == str_strip(m_candidate)
            result == m_found.value
            start == Len(long_form) - Len(result) + 1
            matched_at == BackwardMatch(short_form, long_form,
                                        Len(short_form), Len(long_form)) + 1
        IN  /\ start >= 1
            /\ SubSeq(long_form, start, Len(long_form)) = result
            /\ start = 1 \/ long_form[start - 1] \in breaks
            /\ start <= matched_at
            /\ \A k \in start..matched_at : long_form[k] \notin breaks
            /\ (m_short_form = RdShort /\ m_candidate = RdClause) => result = RdLong

DocCandidates(raw) ==
    extract_candidates_from_parentheses(remove_headings_from_text(raw))

AcceptedIdx(candidates, sf) ==
    {i \in 1..Len(candidates) :
        candidates[i].short_form = sf /\ AcceptedLongForm(candidates[i]).found}

ShortFormsOf(candidates) == {candidates[i].short_form : i \in 1..Len(candidates)}

\* the aggregator tables as the rows of the two CSV files of the mode
TablesAsRows ==
    IF mode = "sw"
    THEN [mapping_csv |->
              {[acronym |-> a, full_form |-> acronym_mappings[a],
                frequency |-> Lookup(acronym_frequencies, a)] :
                  a \in DOMAIN acronym_mappings},
          standalone_csv |->
              {[key |-> a, frequency |-> standalone_acronyms[a]] :
                  a \in DOMAIN standalone_acronyms}]
    ELSE [lowercase_csv |->
              {[key |-> w, frequency |-> lowercase_seen[w]] : w \in DOMAIN lowercase_seen},
          standalone_acronyms_csv |->
              {[key |-> a, frequency |-> standalone_acronyms_seen[a]] :
                  a \in DOMAIN standalone_acronyms_seen}]

IsPrefix(a, b) == Len(a) <= Len(b) /\ SubSeq(b, 1, Len(a)) = a

\* C1: in mapping mode no acronym is a key of both acronym_mappings and
\* standalone_acronyms, whatever documents have been processed, also when an
\* acronym is undefined in an earlier document and defined in a later one.
C1_MappingExclusivity ==
    DOMAIN acronym_mappings \cap DOMAIN standalone_acronyms = {}

\* C2: a stored long form is never changed by a later step; the candidate loop
\* of a document adds to acronym_frequencies[sf] exactly the number of its
\* validated candidates of short form sf, and a short form first mapped by it
\* gets the long form of the first of them in document order.
C2_FirstOccurrenceWins ==
    [][/\ \A sf \in DOMAIN acronym_mappings :
              /\ sf \in DOMAIN acronym_mappings'
              /\ acronym_mappings'[sf] = acronym_mappings[sf]
       /\ (pc = "acronyms" /\ pc' = "standalone") =>
              LET candidates == DocCandidates(text)
              IN  \A sf \in ShortFormsOf(candidates) \cup DOMAIN acronym_frequencies' :
                      LET accepted == AcceptedIdx(candidates, sf)
                      IN  /\ Lookup(acronym_frequencies', sf) =
                                 Lookup(acronym_frequencies, sf) + Cardinality(accepted)
                          /\ (sf \notin DOMAIN acronym_mappings /\ accepted # {}) =>
                                 /\ sf \in DOMAIN acronym_mappings'
                                 /\ acronym_mappings'[sf] =
                                        AcceptedLongForm(candidates[SetMin(accepted)]).value
                          /\ (sf \notin DOMAIN acronym_mappings /\ accepted = {}) =>
                                 sf \notin DOMAIN acronym_mappings'
      ]_vars

\* C2 witness: two valid candidates with different long forms ("Rapid
\* Deployment", then "Research And Development") left the first one stored
\* with frequency 2
C2_Witness ==
    /\ RdShort \in DOMAIN acronym_mappings
    /\ acronym_mappings[RdShort] = Chars("Rapid Deployment")
    /\ acronym_frequencies[RdShort] = 2

Grows(counter, counter2) ==
    \A k \in DOMAIN counter : k \in DOMAIN counter2 /\ counter2[k] >= counter[k]

\* C5: in either mode no step lowers a value of lowercase_seen,
\* standalone_acronyms_seen, acronym_frequencies or standalone_acronyms, or
\* removes a key from one of them or from acronym_mappings.
C5_MonotonicAggregator ==
    [][/\ Grows(lowercase_seen, lowercase_seen')
       /\ Grows(standalone_acronyms_seen, standalone_acronyms_seen')
       /\ Grows(acronym_frequencies, acronym_frequencies')
       /\ Grows(standalone_acronyms, standalone_acronyms')
       /\ DOMAIN acronym_mappings \subseteq DOMAIN acronym_mappings'
      ]_vars

\* C5 witness: a second document has raised a count the first one had set
C5_Witness ==
    /\ Cardinality(persisted) = 2
    /\ \E w \in DOMAIN lowercase_seen : lowercase_seen[w] >= 2

\* C6: when the text extraction of a document yields nothing, process_pdf
\* returns with every table and every output as before the call, and the batch
\* loop then calls process_pdf on the next listed document, if there is one.
C6_NoTextSkipsDocument ==
    [][/\ (pc = "extract" /\ text' = <<>>) =>
              /\ tables' = tables
              /\ outputs' = outputs
              /\ pc' = "loop"
              /\ idx' = idx + 1
       /\ (pc = "loop" /\ idx <= Len(pdf_files)) =>
              /\ pc' = "extract"
              /\ attempted' = Append(attempted, pdf_files[idx])
      ]_vars

\* C6 witness: a document skipped for lack of text, the next one being processed
C6_Witness ==
    /\ mode = "sw"
    /\ Len(attempted) = 2
    /\ attempted[1] \in skipped
    /\ pc = "acronyms"

\* C7: the documents process_pdf was called on are always a prefix of the
\* listing, the completion step is reached with exactly the listing, and a run
\* that has entered the batch loop reaches the completion step, whatever
\* documents failed.
C7_BatchNeverAborts ==
    /\ [](IsPrefix(attempted, pdf_files))
    /\ [](pc = "done" => attempted = pdf_files)
    /\ (pc = "loop" ~> pc = "done")

\* C7 witness: the run completed after its first document had failed
C7_Witness ==
    /\ pc = "done"
    /\ Len(attempted) = 2
    /\ attempted[1] \in failed

\* C8: safe_delete is reached only when this call of process_pdf has written
\* both CSV files with the current tables; a deleted file is one whose results
\* were persisted, never one that was skipped or whose call raised.
C8_DeleteAfterPersist ==
    /\ pc = "delete" =>
           /\ pdf_path \in persisted
           /\ written = CsvFiles(mode)
           /\ csv = TablesAsRows
    /\ deleted \subseteq persisted
    /\ deleted \cap skipped = {}
    /\ deleted \cap failed = {}

\* C8 witness: one document deleted after its save, another one failed and kept
C8_Witness ==
    /\ deleted # {}
    /\ failed # {}

\* C9 as stated: the state is serialized after each document and once more at
\* the end of the run, so at the completion step both CSV files exist and hold
\* the final aggregator state.
C9_SnapshotAtEndOfRun ==
    pc = "done" => (written = CsvFiles(mode) /\ csv = TablesAsRows)

\* the documents whose call reached the save step
ReachedSave == SelectSeq(attempted, LAMBDA d : d \notin skipped)

\* C9 amended: between documents and at the completion step, nothing has been
\* written if no document reached the save step; otherwise, if the last
\* document that reached it was saved, both files hold the aggregator state.
\* No file is written at the end of the run.
C9_SnapshotAfterLastSave ==
    pc \in {"loop", "done"} =>
        IF Len(ReachedSave) = 0
        THEN written = {} /\ csv = EmptyCsv(mode)
        ELSE ReachedSave[Len(ReachedSave)] \in persisted =>
                 (written = CsvFiles(mode) /\ csv = TablesAsRows)

\* C9 witness: a completed run whose last save succeeded after an earlier
\* document had failed
C9_Witness ==
    /\ pc = "done"
    /\ Len(ReachedSave) = 2
    /\ ReachedSave[1] \in failed
    /\ ReachedSave[2] \in persisted
    /\ csv # EmptyCsv(mode)

\* occurrences of the token sf in the body text from position `from` on
OccurrencesFrom(body, sf, from) ==
    Len(SelectSeq(all_acronyms(SubSeq(body, from, Len(body))), LAMBDA a : a = sf))

\* C10 as stated: for a short form with a stored mapping, the candidate loop
\* of a document raises its frequency by the number of its occurrences in the
\* body text, bare or parenthesised, counted from the defining occurrence on
\* (all of them when the mapping was stored by an earlier document).
C10_CountsEveryOccurrence ==
    [][(pc = "acronyms" /\ pc' = "standalone") =>
           LET body == remove_headings_from_text(text)
               candidates == extract_candidates_from_parentheses(body)
           IN  \A sf \in DOMAIN acronym_mappings' :
                   LET from == IF sf \in DOMAIN acronym_mappings THEN 1
                               ELSE candidates[SetMin(AcceptedIdx(candidates, sf))].at
                   IN  Lookup(acronym_frequencies', sf) =
                           Lookup(acronym_frequencies, sf) + OccurrencesFrom(body, sf, from)
      ]_vars

\* C10 amended: on every step the frequency of a short form grows by the
\* number of its validated parenthesised candidates in the document when the
\* step is the candidate loop, and by nothing otherwise: a bare token and a
\* rejected candidate are never counted.
C10_CountsValidatedCandidates ==
    [][\A sf \in DOMAIN acronym_frequencies' \cup DOMAIN acronym_mappings' :
           Lookup(acronym_frequencies', sf) =
               Lookup(acronym_frequencies, sf) +
               (IF pc = "acronyms" /\ pc' = "standalone"
                THEN Cardinality(AcceptedIdx(DocCandidates(text), sf))
                ELSE 0)
      ]_vars

\* C10 witness: "RD" defined once and used bare twice more, counted once
C10_Witness ==
    /\ pc = "standalone"
    /\ RdShort \in DOMAIN acronym_mappings
    /\ OccurrencesFrom(text, RdShort, 1) = 3
    /\ Lookup(acronym_frequencies, RdShort) = 1

(***************************************************************************)
(* Properties of the classifiers and of the matcher                        *)
(***************************************************************************)
HeadingLine == Chars("CHAPTER 1: INTRODUCTION")

RECURSIVE ConcatAll(_)
ConcatAll(seqs) == IF Len(seqs) = 0 THEN <<>> ELSE seqs[1] \o ConcatAll(Tail(seqs))

\* the lines of a text of dict_sw.py that is_heading does not classify as headings
NonHeadingLines(raw) ==
    SelectSeq(str_split_on(raw, "\n"), LAMBDA line : ~sw_is_heading(line))

\* the standalone tokens of the document at hand, taken from its non-heading
\* lines one by one
NonHeadingAcronyms ==
    LET kept == NonHeadingLines(PageText(DocPages(pdf_path)))
    IN  ConcatAll([i \in 1..Len(kept) |-> all_acronyms(kept[i])])

\* the words of the non-heading lines of dict_ac.py, taken line by line
NonHeadingWords(lines) ==
    LET kept == SelectSeq(lines, LAMBDA line : ~ac_is_heading(line))
    IN  ConcatAll([i \in 1..Len(kept) |-> LineWords(kept[i])])

Occurrences(words, w) == Len(SelectSeq(words, LAMBDA x : x = w))

\* C11: "CHAPTER 1: INTRODUCTION" is a heading in both modes; in mapping mode
\* the text the candidates are extracted from holds exactly the non-heading
\* lines of the document, and the standalone counts grow by the tokens of those
\* lines only; in vocabulary mode the lowercase words and the standalone counts
\* come from the non-heading lines only.
C11_HeadingExclusion ==
    [][/\ sw_is_heading(HeadingLine) /\ ac_is_heading(HeadingLine)
       /\ (mode = "sw" /\ pc = "acronyms" /\ pc' = "standalone") =>
              LET kept == NonHeadingLines(text)
                  stored == StoreCandidates(
                                AcceptedCandidates(extract_candidates_from_parentheses(text')),
                                acronym_mappings, acronym_frequencies)
              IN  /\ str_split_on(text', "\n") = (IF Len(kept) = 0 THEN << <<>> >> ELSE kept)
                  /\ acronym_mappings' = stored.mappings
                  /\ acronym_frequencies' = stored.frequencies
       /\ (mode = "sw" /\ pc = "standalone" /\ pc' = "save") =>
              \A k \in DOMAIN standalone_acronyms' \cup DOMAIN standalone_acronyms :
                  Lookup(standalone_acronyms', k) =
                      Lookup(standalone_acronyms, k) +
                      (IF is_valid_acronym(k) /\ k \notin DOMAIN acronym_mappings
                       THEN Occurrences(NonHeadingAcronyms, k) ELSE 0)
       /\ (mode = "ac" /\ pc = "words") =>
              LET words == NonHeadingWords(text)
                  regular == SelectSeq(words, LAMBDA w : ~_is_acronym(w))
              IN  /\ pc' = "update" =>
                         lowercase_words' = [i \in 1..Len(regular) |-> str_lower(regular[i])]
                  /\ \A k \in DOMAIN standalone_acronyms_seen' \cup DOMAIN standalone_acronyms_seen :
                         Lookup(standalone_acronyms_seen', k) =
                             Lookup(standalone_acronyms_seen, k) +
                             (IF _is_acronym(k) THEN Occurrences(words, k) ELSE 0)
      ]_vars

\* C11 witness: a document that opens with the heading has been scanned in
\* mapping mode: "RD" of its body is counted, "CHAPTER" of its heading is not
C11_Witness ==
    /\ mode = "sw" /\ pc = "save"
    /\ pdf_path = "nato.pdf"
    /\ Chars("RD") \in DOMAIN standalone_acronyms
    /\ Chars("CHAPTER") \notin DOMAIN standalone_acronyms

IsTheBest == Chars("is the best")

\* the rejection conditions of the validator named by the spec
Rejectable(long_form) ==
    LET words == str_split(long_form)
    IN  \/ Len(long_form) < 3
        \/ Len(words) < 2
        \/ str_isupper(long_form) /\ Len(words) >= 3
        \/ \E indicator \in verb_indicators : str_contains(str_lower(long_form), indicator)
        \/ 10 * CapCount(words) < 4 * Len(words)

\* C12: validate_long_form returns false for every long form that is shorter
\* than 3 characters, has fewer than 2 words, is all-uppercase with 3 or more
\* words, contains a verb marker or has fewer than 40% of its words
\* capitalised; "is the best" is rejected.
C12_ValidatorRejection ==
    m_pc # "validate" =>
        /\ Rejectable(m_long_form) => (~m_valid /\ m_pc = "dropped")
        /\ m_long_form = IsTheBest => ~m_valid

\* C12 witness: "is the best" has been validated and dropped
C12_Witness ==
    /\ m_pc = "dropped"
    /\ m_long_form = IsTheBest
    /\ ~m_valid

RdLongClause == Chars("Research on the annual And Development")

\* min(len(short_form) + 5, len(short_form) * 2)
max_words_of(short_form) ==
    IF Len(short_form) + 5 < Len(short_form) * 2
    THEN Len(short_form) + 5 ELSE Len(short_form) * 2

\* C13: the long form returned by find_best_long_form has at most
\* min(len(short_form) + 5, 2 * len(short_form)) words, the candidate having
\* been cut to its last words before character matching.
C13_WordBound ==
    (m_pc # "match" /\ m_found.found) =>
        Len(str_split(m_found.value)) <= max_words_of(str_strip(m_short_form))

SentenceMarks == {".", "!", "?", ";", ":"}

\* C14: a kept long-form candidate is the part of the preceding text after
\* the rightmost of the marks . ! ? ; : (over all five), so it never contains
\* any of those five marks.
C14_ClauseTruncation ==
    m_pc \notin {"extract", "idle"} =>
        \A k \in DOMAIN m_candidate : m_candidate[k] \notin SentenceMarks

\* the short-form characters found in order among the word initials of the
\* long form, and the number of those initials
MatchedInitials(short_form, long_form) ==
    InitialMatches(short_form, Initials(str_split(long_form)), 1, 1)

LetterWords_of(long_form) == Len(Initials(str_split(long_form)))

\* fewer than 30% of the short-form characters are matched
LowMatch(short_form, long_form) ==
    10 * MatchedInitials(short_form, long_form) < 3 * Len(short_form)

\* C15 as stated: every pair that validate_long_form accepts has at least
\* 30% of the short-form characters matched in order among the long form's
\* word initials, also when fewer than two words start with a letter.
C15_InitialsCheck ==
    m_pc \in {"store", "stored"} => ~LowMatch(m_short_form, m_long_form)

\* C15 amended: the same for long forms with at least two words that start
\* with a letter, which are always rejected when fewer than 30% match; with
\* fewer than two such words the initials do not decide (a long form that
\* passes the earlier tests is accepted whatever the fraction).
C15_InitialsCheckTwoInitials ==
    /\ (m_pc \in {"store", "stored"} /\ LetterWords_of(m_long_form) >= 2)
           => ~LowMatch(m_short_form, m_long_form)
    /\ (m_pc # "validate" /\ LetterWords_of(m_long_form) >= 2
           /\ LowMatch(m_short_form, m_long_form))
           => (~m_valid /\ m_pc = "dropped")
    /\ (m_pc # "validate" /\ LetterWords_of(m_long_form) < 2
           /\ ~Rejectable(m_long_form))
           => m_valid

\* C15 witness: "Research Development" has been accepted for "RD" (both
\* initials match), and stored
C15_Witness ==
    /\ m_pc = "stored"
    /\ m_short_form = Chars("RD")
    /\ m_long_form = Chars("Research Development")
    /\ m_valid

(***************************************************************************)
(* Properties of safe_delete and of the two tables of mapping mode         *)
(***************************************************************************)
Retrying(n) == [i \in 1..n |-> "retrying"]

C17_MappedIffCounted ==
    /\ [](mode = "sw" =>
            /\ DOMAIN acronym_mappings =
                   {sf \in DOMAIN acronym_frequencies : acronym_frequencies[sf] >= 1}
            /\ \A row \in csv.mapping_csv : row.frequency >= 1)
    /\ [][(mode = "sw" /\ pc = "acronyms" /\ pc' = "standalone") =>
            LET candidates == DocCandidates(text)
            IN  \A sf \in ShortFormsOf(candidates) :
                    AcceptedIdx(candidates, sf) = {} =>
                        /\ Lookup(acronym_frequencies', sf) = Lookup(acronym_frequencies, sf)
                        /\ (sf \in DOMAIN acronym_mappings') = (sf \in DOMAIN acronym_mappings)
                        /\ sf \in DOMAIN acronym_mappings =>
                               acronym_mappings'[sf] = acronym_mappings[sf]
          ]_vars

\* C17 witness: nato.pdf, whose only candidate (NATO) is dropped, has been
\* processed and saved, NATO is in neither table, and the mappings CSV holds
\* a row for RD
C17_Witness ==
    /\ mode = "sw"
    /\ "nato.pdf" \in persisted
    /\ NatoShort \notin DOMAIN acronym_mappings
    /\ NatoShort \notin DOMAIN acronym_frequencies
    /\ \E row \in csv.mapping_csv : row.acronym = RdShort /\ row.frequency >= 1

(***************************************************************************)
(* Order of the two loops of extract_acronyms                              *)
(***************************************************************************)
\* the short forms of the accepted candidates of the heading-stripped text
AcceptedShortForms(body) ==
    LET accepted == AcceptedCandidates(extract_candidates_from_parentheses(body))
    IN  {accepted[i].short_form : i \in 1..Len(accepted)}

\* C18: within one call of extract_acronyms the candidate loop counts no
\* standalone token and the standalone loop stores no candidate; when the
\* standalone loop starts every accepted candidate of the document is in
\* acronym_mappings, so an acronym defined anywhere in the document, also
\* after a bare occurrence, gets no standalone increment from it; and when
\* the standalone table was empty before the call, the mapping and the
\* standalone key sets are disjoint after it.
C18_CandidatesBeforeStandalone ==
    [][/\ (mode = "sw" /\ pc = "acronyms" /\ pc' = "standalone") =>
            /\ standalone_acronyms' = standalone_acronyms
            /\ AcceptedShortForms(text') \subseteq DOMAIN acronym_mappings'
       /\ (mode = "sw" /\ pc = "standalone" /\ pc' = "save") =>
            /\ acronym_mappings' = acronym_mappings
            /\ acronym_frequencies' = acronym_frequencies
            /\ \A sf \in AcceptedShortForms(text) :
                   Lookup(standalone_acronyms', sf) = Lookup(standalone_acronyms, sf)
            /\ DOMAIN standalone_acronyms = {} =>
                   DOMAIN acronym_mappings' \cap DOMAIN standalone_acronyms' = {}
      ]_vars

\* C18 witness: late.pdf, where RD occurs bare before "Research And
\* Development (RD)", is the first document and both loops have run: RD is
\* mapped and has no standalone count
C18_Witness ==
    /\ mode = "sw" /\ pc = "save" /\ idx = 1
    /\ pdf_path = "late.pdf"
    /\ RdShort \in DOMAIN acronym_mappings
    /\ RdShort \notin DOMAIN standalone_acronyms

====
